---- MODULE Spec2Model ----
(***************************************************************************)
(* Athena ingestion module: the per-file pipeline (backend/main.py), the   *)
(* status queue served over SSE (backend/main.py) and the chunking and     *)
(* retrying translation client (backend/translation.py).                   *)
(*                                                                         *)
(* A text is kept run-length encoded: a sequence of runs [c, n] meaning n  *)
(* copies of the character c, with no empty run and no two adjacent runs   *)
(* of the same character, so that two texts are equal exactly when their   *)
(* encodings are equal.  This keeps CHUNK_SIZE at its real value.          *)
(***************************************************************************)
EXTENDS Integers, Sequences, FiniteSets, TLC

\* ------------------------------------------------------------------ bounds
MaxChunks == 2
MaxJobs == 2
MaxSubs == 2
MaxPublish == 2

MaxLiveJobs == 1
MaxLiveSubs == 1

\* --------------------------------------------------------------- constants
CHUNK_SIZE == 4800
MAX_RETRIES == 3
PACING_DELAY == 1

\* ------------------------------------------------------------------- texts
Run(c, n) == [c |-> c, n |-> n]

EmptyText == << >>

\* len(t)
RECURSIVE TextLen(_)
TextLen(t) == IF t = << >> THEN 0 ELSE Head(t).n + TextLen(Tail(t))

\* a + b on Python strings
Concat(a, b) ==
    IF a = << >> THEN b
    ELSE IF b = << >> THEN a
    ELSE IF a[Len(a)].c = b[1].c
         THEN SubSeq(a, 1, Len(a) - 1)
              \o << Run(b[1].c, a[Len(a)].n + b[1].n) >>
              \o Tail(b)
         ELSE a \o b

\* t[:k] for 0 <= k
RECURSIVE Take(_, _)
Take(t, k) ==
    IF k <= 0 \/ t = << >> THEN << >>
    ELSE IF Head(t).n <= k THEN << Head(t) >> \o Take(Tail(t), k - Head(t).n)
    ELSE << Run(Head(t).c, k) >>

\* t[k:] for 0 <= k
RECURSIVE Drop(_, _)
Drop(t, k) ==
    IF t = << >> THEN << >>
    ELSE IF k <= 0 THEN t
    ELSE IF Head(t).n <= k THEN Drop(Tail(t), k - Head(t).n)
    ELSE << Run(Head(t).c, Head(t).n - k) >> \o Tail(t)

\* t[i:j] for 0 <= i <= j (Python clamps j to the length)
Slice(t, i, j) == Take(Drop(t, i), j - i)

\* "".join(parts)
RECURSIVE Join(_)
Join(parts) == IF parts = << >> THEN EmptyText ELSE Concat(Head(parts), Join(Tail(parts)))

\* t.strip(): leading and trailing whitespace removed
RECURSIVE LStrip(_)
LStrip(t) == IF t # << >> /\ Head(t).c = " " THEN LStrip(Tail(t)) ELSE t

RECURSIVE RStrip(_)
RStrip(t) ==
    IF t # << >> /\ t[Len(t)].c = " "
    THEN RStrip(SubSeq(t, 1, Len(t) - 1))
    ELSE t

StripNothing(t) == t

Strip(t) == RStrip(LStrip(t))

\* ------------------------------------------------- translation.translate_text
\* The remote service's answers to one POST: an HTTP status with the way the
\* body renders the chunk, or no answer at all (code 0, a transport error).
Responses ==
    { [code |-> 200, tr |-> "identity"], [code |-> 200, tr |-> "upper"],
      [code |-> 429, tr |-> "none"], [code |-> 500, tr |-> "none"],
      [code |-> 0, tr |-> "none"] }

Up(c) == IF c = "x" THEN "X" ELSE c

Upper(t) == Join([i \in DOMAIN t |-> << Run(Up(t[i].c), t[i].n) >>])

\* translation_result[0]['translations'][0]['text']
Body(chunk, r) == IF r.tr = "upper" THEN Upper(chunk) ELSE chunk

ChunksOverlapping(text) ==
    [k \in 1..((TextLen(text) + CHUNK_SIZE - 1) \div CHUNK_SIZE) |->
        Slice(text, (k - 1) * CHUNK_SIZE, (k - 1) * CHUNK_SIZE + CHUNK_SIZE + 1)]

\* [text[i:i + CHUNK_SIZE] for i in range(0, len(text), CHUNK_SIZE)]
Chunks(text) ==
    [k \in 1..((TextLen(text) + CHUNK_SIZE - 1) \div CHUNK_SIZE) |->
        Slice(text, (k - 1) * CHUNK_SIZE, (k - 1) * CHUNK_SIZE + CHUNK_SIZE)]

PostOp(k) == [op |-> "post", arg |-> k]
SleepOp(secs) == [op |-> "sleep", arg |-> secs]
RespOp(code) == [op |-> "resp", arg |-> code]

\* One call of translate_text: the chunk list, the chunk whose POST is awaited
\* (1-based) and its attempt number, the translated chunks so far, the POSTs,
\* answers and sleeps so far, and how the call stands.
NoCall ==
    [chunks |-> << >>, k |-> 0, attempt |-> 0, out |-> << >>, log |-> << >>,
     status |-> "none", value |-> EmptyText, err |-> "none"]

\* The call up to its first POST.
TranslateStart(text, hasKey) ==
    IF ~hasKey
    THEN [NoCall EXCEPT !.status = "raised", !.err = "ValueError"]
    ELSE LET chunks == Chunks(text) IN
         IF chunks = << >>
         THEN [NoCall EXCEPT !.status = "returned", !.value = Join(<< >>)]
         ELSE [NoCall EXCEPT !.chunks = chunks, !.k = 1, !.status = "awaiting",
                             !.log = << PostOp(1) >>]

WaitTimeFromOne(attempt) == 2 ^ attempt

\* wait_time = 2 ** (attempt + 1)
WaitTime(attempt) == 2 ^ (attempt + 1)

ShouldRetryAnyError(code, attempt) == attempt < MAX_RETRIES - 1

\* The retry test of the except clause.
ShouldRetry(code, attempt) == code = 429 /\ attempt < MAX_RETRIES - 1

NextChunkSharedBudget(st, out, log) ==
    IF st.k < Len(st.chunks)
    THEN [st EXCEPT !.out = out, !.k = st.k + 1,
                    !.log = Append(log, PostOp(st.k + 1))]
    ELSE [st EXCEPT !.out = out, !.log = log, !.status = "returned", !.value = Join(out)]

\* Leaving the retry loop of chunk st.k (by break, or with the attempts used
\* up): the POST of the next chunk, or the return of the joined chunks.
NextChunk(st, out, log) ==
    IF st.k < Len(st.chunks)
    THEN [st EXCEPT !.out = out, !.k = st.k + 1, !.attempt = 0,
                    !.log = Append(log, PostOp(st.k + 1))]
    ELSE [st EXCEPT !.out = out, !.log = log, !.status = "returned", !.value = Join(out)]

TranslateStepReturnsPartial(st, r) ==
    LET log == Append(st.log, RespOp(r.code)) IN
    IF r.code = 200
    THEN NextChunk(st, Append(st.out, Body(st.chunks[st.k], r)),
                   Append(log, SleepOp(PACING_DELAY)))
    ELSE IF ShouldRetry(r.code, st.attempt)
    THEN [st EXCEPT !.attempt = st.attempt + 1,
                    !.log = Append(Append(log, SleepOp(WaitTime(st.attempt))), PostOp(st.k))]
    ELSE [st EXCEPT !.status = "returned", !.log = log, !.value = Join(st.out)]

\* The call from the answer r to its awaited POST up to the next POST, the
\* return or the raise.
TranslateStep(st, r) ==
    LET log == Append(st.log, RespOp(r.code)) IN
    IF r.code = 200
    THEN NextChunk(st, Append(st.out, Body(st.chunks[st.k], r)),
                   Append(log, SleepOp(PACING_DELAY)))
    ELSE IF ShouldRetry(r.code, st.attempt)
    THEN LET slept == Append(log, SleepOp(WaitTime(st.attempt))) IN
         IF st.attempt + 1 < MAX_RETRIES
         THEN [st EXCEPT !.attempt = st.attempt + 1, !.log = Append(slept, PostOp(st.k))]
         ELSE NextChunk(st, st.out, slept)
    ELSE [st EXCEPT !.status = "raised", !.log = log,
                    !.err = IF r.code = 0 THEN "TransportError" ELSE "HTTPStatusError"]

\* Every way a call can end, over all answers of the service.
RECURSIVE TranslateOutcomes(_)
TranslateOutcomes(st) ==
    IF st.status # "awaiting" THEN { st }
    ELSE UNION { TranslateOutcomes(next) : next \in { TranslateStep(st, r) : r \in Responses } }

\* ------------------------------------------------------------------- state
VARIABLES
    api_key,        \* TRANSLATOR_API_KEY is set
    job,            \* per upload: where its coroutine stands, and its locals
    hist,           \* per upload: what happened to it (history)
    store,          \* the uploads directory: file name -> content
    results,        \* per upload: the entry of the upload response
    response,       \* what POST /api/upload/ returned, once it has
    status_queue,   \* the global asyncio.Queue of status messages
    published,      \* every message ever put on status_queue, in order (history)
    popped,         \* how many messages were taken from status_queue (history)
    sub,            \* per SSE connection: where its generator stands
    client,         \* per SSE connection: the observer is still connected
    joined,         \* per SSE connection: Len(published) when it connected (history)
    received,       \* per SSE connection: publish indexes of the messages yielded to it
    pinged,         \* per SSE connection: a keep-alive comment was yielded to it (history)
    tr_text,        \* the text given to a translate_text call run on its own
    tr_call         \* that call

vars ==
    << api_key, job, hist, store, results, response, status_queue, published, popped,
       sub, client, joined, received, pinged, tr_text, tr_call >>

jobVars == << job, hist, store, results, response >>
hubVars == << sub, client, joined, received, pinged, popped >>
trVars == << tr_text, tr_call >>

Jobs == 1..MaxJobs
Subs == 1..MaxSubs

\* ------------------------------------------------------------- file names
\* A file name is a stem, the suffixes appended to it and an extension:
\* os.path.splitext(name) is (stem and suffixes, extension).
FileName(stem, sfx, ext) == [stem |-> stem, sfx |-> sfx, ext |-> ext]

\* f"{base_filename}_translated.txt"
TranslatedName(name) == FileName(name.stem, Append(name.sfx, "_translated"), ".txt")

\* f"{base_filename}_metadata.json"
MetadataName(name) == FileName(name.stem, Append(name.sfx, "_metadata"), ".json")

UploadExts == { ".txt", ".PDF", ".exe" }

\* str.lower() on the extensions that occur
LowerNothing(ext) == ext

Lower(ext) == IF ext = ".PDF" THEN ".pdf" ELSE ext

ALLOWED_EXTENSIONS == { ".pdf", ".docx", ".txt", ".tex", ".html", ".xml" }

MAX_FILE_SIZE == 50 * 1024 * 1024

UploadSizes == { MAX_FILE_SIZE, MAX_FILE_SIZE + 1 }

\* An upload named like a derived artifact: 1_metadata.json.
DerivedUpload == MetadataName(FileName(1, << >>, ".txt"))

\* The names upload j can have: its own stem or the stem of the first upload
\* (two uploads such as 1.txt and 1.PDF differ only in the extension).
UploadNames(j) ==
    { FileName(s, << >>, e) : s \in { 1, j }, e \in UploadExts }
    \cup { DerivedUpload }

Names ==
    UNION { { n, TranslatedName(n), MetadataName(n) } : n \in UNION { UploadNames(j) : j \in Jobs } }

Absent == [kind |-> "absent"]

\* os.path.exists(path)
Exists(st, name) == st[name] # Absent

\* os.remove(path)
Remove(st, name) == [st EXCEPT ![name] = Absent]

\* open(path, "w").write(content)
WriteFile(st, name, content) == [st EXCEPT ![name] = content]

\* if os.path.exists(file_path): os.remove(file_path)
RemoveIfExists(st, name) == IF Exists(st, name) THEN Remove(st, name) ELSE st

\* ----------------------------------------------------------- status events
Event(name, status, detail) == [filename |-> name, status |-> status, detail |-> detail]

NoDetail == "none"

\* The world a job acts on: the store and the queue (with its history).
World == [store |-> store, queue |-> status_queue, published |-> published]

\* await status_queue.put(message): the queue is unbounded, put never waits
Put(w, e) == [w EXCEPT !.queue = Append(w.queue, e), !.published = Append(w.published, e)]

\* ------------------------------------------------------------ main.scan_file
\* What running clamscan can do: exit 0, exit 1 (infected), exit with another
\* code, fail to start because the executable is missing, fail otherwise.
ScanVerdicts == { "clean", "infected", "failed", "missing", "crashed" }

NoExc == [kind |-> "none", detail |-> NoDetail]
HTTPException(detail) == [kind |-> "HTTPException", detail |-> detail]

MalwareDetail == "Malware detected in file. Upload rejected."
ScanErrorDetail == "An error occurred during malware scanning. The file has been removed."
ScanUnexpectedDetail == "An unexpected server error occurred during file security processing."

ScanBodyOnlyMalware(st, name, verdict) ==
    CASE verdict = "infected" ->
            [store |-> Remove(st, name), exc |-> HTTPException(MalwareDetail)]
      [] verdict = "missing" ->
            [store |-> st, exc |-> [kind |-> "FileNotFoundError", detail |-> NoDetail]]
      [] verdict = "crashed" ->
            [store |-> st, exc |-> [kind |-> "OSError", detail |-> NoDetail]]
      [] OTHER -> [store |-> st, exc |-> NoExc]

\* The try body of scan_file: the store it leaves and the exception it raises.
ScanBody(st, name, verdict) ==
    CASE verdict = "infected" ->
            [store |-> Remove(st, name), exc |-> HTTPException(MalwareDetail)]
      [] verdict = "failed" ->
            [store |-> Remove(st, name), exc |-> HTTPException(ScanErrorDetail)]
      [] verdict = "missing" ->
            [store |-> st, exc |-> [kind |-> "FileNotFoundError", detail |-> NoDetail]]
      [] verdict = "crashed" ->
            [store |-> st, exc |-> [kind |-> "OSError", detail |-> NoDetail]]
      [] OTHER -> [store |-> st, exc |-> NoExc]

ScanFileNoSoftFail(st, name, verdict) ==
    LET b == ScanBody(st, name, verdict) IN
    IF b.exc.kind = "none" THEN b
    ELSE [store |-> RemoveIfExists(b.store, name),
          exc |-> HTTPException(ScanUnexpectedDetail)]

\* The except clauses of scan_file, in order: FileNotFoundError passes, any
\* other Exception (the HTTPExceptions raised in the body are Exceptions)
\* removes the file and raises the generic HTTPException.
ScanFile(st, name, verdict) ==
    LET b == ScanBody(st, name, verdict) IN
    IF b.exc.kind = "none" THEN b
    ELSE IF b.exc.kind = "FileNotFoundError" THEN [store |-> b.store, exc |-> NoExc]
    ELSE [store |-> RemoveIfExists(b.store, name),
          exc |-> HTTPException(ScanUnexpectedDetail)]

\* ------------------------------------------ main.process_file_in_background
\* The status each step of a job puts on the queue.
StageStatusSwapped(stage) ==
    CASE stage = "scan" -> "Scanning for malware..."
      [] stage = "extract" -> "Translating..."
      [] stage = "translate" -> "Processing..."
      [] stage = "metadata" -> "Extracting Metadata..."

StageStatus(stage) ==
    CASE stage = "scan" -> "Scanning for malware..."
      [] stage = "extract" -> "Processing..."
      [] stage = "translate" -> "Translating..."
      [] stage = "metadata" -> "Extracting Metadata..."

ScanningStatus == "Scanning for malware..."
ProcessingStatus == "Processing..."
TranslatingStatus == "Translating..."
MetadataStatus == "Extracting Metadata..."
CompleteStatus == "Complete"
ErrorStatus == "Error"

CompleteDetail == "Processing finished successfully."
UnexpectedDetail == "An unexpected error occurred"

EndJobFallThrough(w, name, exc) ==
    IF exc.kind = "none"
    THEN [w |-> Put(w, Event(name, CompleteStatus, CompleteDetail)),
          result |-> [status |-> "success", error |-> NoDetail]]
    ELSE LET detail == IF exc.kind = "HTTPException" THEN exc.detail ELSE UnexpectedDetail
             w1 == [w EXCEPT !.store = RemoveIfExists(w.store, name)]
         IN  [w |-> Put(Put(w1, Event(name, ErrorStatus, detail)),
                        Event(name, CompleteStatus, CompleteDetail)),
              result |-> [status |-> "success", error |-> NoDetail]]

\* The end of process_file_in_background once scan_file and
\* process_and_translate_file are over with exception exc (or none): the
\* terminal event and the returned dict.
EndJob(w, name, exc) ==
    IF exc.kind = "none"
    THEN [w |-> Put(w, Event(name, CompleteStatus, CompleteDetail)),
          result |-> [status |-> "success", error |-> NoDetail]]
    ELSE LET detail == IF exc.kind = "HTTPException" THEN exc.detail ELSE UnexpectedDetail
             w1 == [w EXCEPT !.store = RemoveIfExists(w.store, name)]
         IN  [w |-> Put(w1, Event(name, ErrorStatus, detail)),
              result |-> [status |-> "error", error |-> detail]]

TranslateHandlerReraise(exc) == exc

\* The except clause of process_and_translate_file: the error is printed and
\* not re-raised, so nothing propagates to process_file_in_background.
TranslateHandler(exc) == NoExc

\* text_extractors.get(file_ext) finds an extractor
HasExtractor(file_ext) == file_ext \in { ".pdf", ".docx", ".txt", ".html", ".xml", ".tex" }

\* ------------------------------------------------------------- the pipeline
NoName == FileName(0, << >>, "")

NoJob == [pc |-> "absent", name |-> NoName, file_ext |-> "", text |-> EmptyText]

NoHist ==
    [verdict |-> "none", failed |-> {}, stages |-> {}, derived_from |-> << >>,
     size |-> 0, extracted |-> << >>, translated |-> << >>, partial |-> 0,
     wrote |-> {}, removed |-> {}]

NoResult == [status |-> "none", error |-> NoDetail]

NoResponse == [successful |-> 0, failed |-> 0, details |-> << >>]

Original(size) == [kind |-> "original", size |-> size]

\* What an extractor can return (it can also raise).
ExtractedTexts ==
    { EmptyText, << Run(" ", 1) >>, << Run("x", 1) >>,
      << Run("x", (MaxChunks - 1) * CHUNK_SIZE), Run(" ", 1) >> }

Commit(w) ==
    /\ store' = w.store
    /\ status_queue' = w.queue
    /\ published' = w.published

\* The terminal stage a job ends in.
Ended(fin) == IF fin.result.status = "success" THEN "Complete" ELSE "Error"

\* The job is over: its locals are gone, its name is kept for the record.
Finished(j, pc, name, fin) ==
    /\ job' = [job EXCEPT ![j] = [NoJob EXCEPT !.pc = pc, !.name = name]]
    /\ results' = [results EXCEPT ![j] = fin.result]
    /\ Commit(fin.w)

\* file_size > MAX_FILE_SIZE
SizeExceedsFromLimit(size) == size >= MAX_FILE_SIZE

SizeExceeds(size) == size > MAX_FILE_SIZE

RejectionSilent(detail) == [status |-> "error", error |-> NoDetail]

\* The dict the except clause of process_single_file returns.
Rejection(detail) == [status |-> "error", error |-> detail]

CanPutBounded(queue) == Len(queue) < 1

\* await status_queue.put(message) goes through: the queue is created without
\* a maxsize, so put never waits for a consumer.
CanPut(queue) == TRUE

\* No two uploads of a run carry the same filename.
FreeNames(j) == { n \in UploadNames(j) : \A k \in Jobs \ { j } : job[k].name # n }

\* process_single_file up to the first point where the coroutine is suspended
\* (asyncio.to_thread of the extractor): validation, saving, the Scanning event,
\* scan_file (a blocking subprocess.run) and the Processing event.
Upload(j) ==
    /\ job[j].pc = "absent"
    /\ CanPut(status_queue)
    /\ \E name \in FreeNames(j), size \in UploadSizes, verdict \in ScanVerdicts :
        LET file_ext == Lower(name.ext)
            saved == WriteFile(store, name, Original(size))
        IN
        IF file_ext \notin ALLOWED_EXTENSIONS
        THEN /\ Finished(j, "rejected", name,
                    [w |-> [World EXCEPT !.store = RemoveIfExists(store, name)],
                     result |-> Rejection("File type not allowed")])
             /\ hist' = [hist EXCEPT ![j].size = size,
                                     ![j].removed = IF Exists(store, name) THEN { name } ELSE {}]
        ELSE IF SizeExceeds(size)
        THEN /\ Finished(j, "rejected", name,
                    [w |-> [World EXCEPT !.store = RemoveIfExists(Remove(saved, name), name)],
                     result |-> Rejection("File size exceeds limit")])
             /\ hist' = [hist EXCEPT ![j].size = size, ![j].wrote = { name },
                                     ![j].removed = { name }]
        ELSE LET w1 == Put([World EXCEPT !.store = saved],
                           Event(name, StageStatus("scan"), NoDetail))
                 sc == ScanFile(w1.store, name, verdict)
                 w2 == [w1 EXCEPT !.store = sc.store]
             IN
             /\ hist' = [hist EXCEPT ![j].size = size,
                                     ![j].wrote = { name },
                                     ![j].removed = IF sc.exc.kind # "none" THEN { name } ELSE {},
                                     ![j].verdict = verdict,
                                     ![j].failed = IF verdict \in { "infected", "failed", "crashed" }
                                                   THEN { "scan" } ELSE {},
                                     ![j].stages = IF sc.exc.kind # "none" THEN { "Scanning", "Error" }
                                                   ELSE IF ~HasExtractor(file_ext)
                                                   THEN { "Scanning", "Complete" }
                                                   ELSE { "Scanning", "Extracting" }]
             /\ IF sc.exc.kind # "none"
                THEN Finished(j, "done", name, EndJob(w2, name, sc.exc))
                ELSE IF ~HasExtractor(file_ext)
                THEN Finished(j, "done", name, EndJob(w2, name, NoExc))
                ELSE /\ job' = [job EXCEPT ![j] = [pc |-> "extracting", name |-> name,
                                                   file_ext |-> file_ext, text |-> EmptyText]]
                     /\ Commit(Put(w2, Event(name, StageStatus("extract"), NoDetail)))
                     /\ UNCHANGED results
    /\ UNCHANGED << api_key, response, hubVars, trVars >>

\* The extractor thread is over: the emptiness test, the Translating event and
\* translate_text up to its first POST.
ExtractDone(j) ==
    /\ job[j].pc = "extracting"
    /\ CanPut(status_queue)
    /\ \E raised \in BOOLEAN, text \in ExtractedTexts :
        LET name == job[j].name
            call == TranslateStart(text, api_key)
            w1 == Put(World, Event(name, StageStatus("translate"), NoDetail))
            fin == EndJob(World, name, TranslateHandler([kind |-> "Exception", detail |-> NoDetail]))
            fin1 == EndJob(w1, name, TranslateHandler([kind |-> call.err, detail |-> NoDetail]))
        IN
        IF raised
        THEN /\ text = EmptyText
             /\ hist' = [hist EXCEPT ![j].failed = @ \cup { "extract" },
                                     ![j].stages = @ \cup { Ended(fin) }]
             /\ Finished(j, "done", name, fin)
        ELSE IF Strip(text) = EmptyText
        THEN /\ Finished(j, "done", name, EndJob(World, name, NoExc))
             /\ hist' = [hist EXCEPT ![j].extracted = << text >>,
                                     ![j].stages = @ \cup { "Complete" }]
        ELSE IF call.status = "raised"
        THEN /\ hist' = [hist EXCEPT ![j].extracted = << text >>,
                                     ![j].failed = @ \cup { "translate" },
                                     ![j].stages = @ \cup { "Translating", Ended(fin1) }]
             /\ Finished(j, "done", name, fin1)
        ELSE /\ job' = [job EXCEPT ![j].pc = "translating", ![j].text = text]
             /\ hist' = [hist EXCEPT ![j].extracted = << text >>,
                                     ![j].stages = @ \cup { "Translating" }]
             /\ Commit(w1)
             /\ UNCHANGED results
    /\ UNCHANGED << api_key, response, hubVars, trVars >>

DeriverInputOriginal(original_text, translated_text) == original_text

\* The text_content process_and_save_metadata hands to process_file_metadata.
DeriverInput(original_text, translated_text) == translated_text

\* translate_text is over (its POSTs and sleeps touch neither the store nor the
\* queue): on return, process_and_save_metadata up to the call of the deriver.
TranslateDone(j) ==
    /\ job[j].pc = "translating"
    /\ CanPut(status_queue)
    /\ \E o \in TranslateOutcomes(TranslateStart(job[j].text, api_key)) :
        LET name == job[j].name
            fin == EndJob(World, name, TranslateHandler([kind |-> o.err, detail |-> NoDetail]))
        IN
        IF o.status = "raised"
        THEN /\ hist' = [hist EXCEPT ![j].failed = @ \cup { "translate" },
                                     ![j].partial = Len(o.out),
                                     ![j].stages = @ \cup { Ended(fin) }]
             /\ Finished(j, "done", name, fin)
        ELSE /\ job' = [job EXCEPT ![j].pc = "metadata", ![j].text = o.value]
             /\ hist' = [hist EXCEPT ![j].translated = << o.value >>,
                                     ![j].derived_from = << DeriverInput(job[j].text, o.value) >>,
                                     ![j].stages = @ \cup { "DerivingMetadata" }]
             /\ Commit(Put(World, Event(name, StageStatus("metadata"), NoDetail)))
             /\ UNCHANGED results
    /\ UNCHANGED << api_key, response, hubVars, trVars >>

\* minimal_metadata of process_and_save_metadata
MinimalMetadata(name) ==
    [kind |-> "metadata", title |-> << name.stem, name.sfx >>,
     authors |-> << "No Authors" >>, abstract |-> "No abstract available",
     keywords |-> << "general" >>, error |-> FALSE]

\* A record process_file_metadata returns: the required fields are always set.
DerivedMetadata(name) ==
    [kind |-> "metadata", title |-> << name.stem, name.sfx >>,
     authors |-> << "No Authors" >>, abstract |-> "generated",
     keywords |-> << "generated" >>, error |-> FALSE]

TranslatedFile(text) == [kind |-> "translated", text |-> text]

\* process_and_save_metadata from the return of the deriver: the derived
\* record is saved, or on an exception of the deriver the minimal one with the
\* error; nothing is raised to the caller.
SaveMetadataReraise(st, name, raised) ==
    IF raised
    THEN [store |-> st, wrote |-> {}, exc |-> [kind |-> "Exception", detail |-> NoDetail]]
    ELSE [store |-> WriteFile(st, MetadataName(name), DerivedMetadata(name)),
          wrote |-> { MetadataName(name) }, exc |-> NoExc]

SaveMetadata(st, name, raised) ==
    [store |-> WriteFile(st, MetadataName(name),
                         IF raised THEN [MinimalMetadata(name) EXCEPT !.error = TRUE]
                         ELSE DerivedMetadata(name)),
     wrote |-> { MetadataName(name) },
     exc |-> NoExc]

\* The deriver is over: the metadata file (the derived record, or the minimal
\* one with the error when it raised), then the translated file when the
\* translated text is not empty, then the Complete event.
MetadataDone(j) ==
    /\ job[j].pc = "metadata"
    /\ CanPut(status_queue)
    /\ \E raised \in BOOLEAN :
        LET name == job[j].name
            text == job[j].text
            sv == SaveMetadata(store, name, raised)
            step4 == sv.exc.kind = "none" /\ text # EmptyText
            st2 == IF step4
                   THEN WriteFile(sv.store, TranslatedName(name), TranslatedFile(text))
                   ELSE sv.store
            fin == EndJob([World EXCEPT !.store = st2], name, TranslateHandler(sv.exc))
        IN
        /\ hist' = [hist EXCEPT ![j].failed = IF raised THEN @ \cup { "metadata" } ELSE @,
                                ![j].wrote = @ \cup sv.wrote
                                                 \cup (IF step4 THEN { TranslatedName(name) } ELSE {}),
                                ![j].stages = @ \cup { "Persisting", Ended(fin) }]
        /\ Finished(j, "done", name, fin)
    /\ UNCHANGED << api_key, response, hubVars, trVars >>

\* --------------------------------------------------------- main.upload_files
UploadFilesCountsAll(res) ==
    LET success_count == Cardinality({ j \in DOMAIN res : res[j].status # "none" }) IN
    [successful |-> success_count,
     failed |-> Cardinality(DOMAIN res) - success_count,
     details |-> [j \in 1..Cardinality(DOMAIN res) |-> res[j]]]

\* The dict upload_files returns for the gathered results res of its files.
UploadFilesResponse(res) ==
    LET success_count == Cardinality({ j \in DOMAIN res : res[j].status = "success" }) IN
    [successful |-> success_count,
     failed |-> Cardinality(DOMAIN res) - success_count,
     details |-> [j \in 1..Cardinality(DOMAIN res) |-> res[j]]]

\* asyncio.gather is over (every process_single_file has returned) and
\* upload_files returns.
UploadFilesReturn ==
    /\ response = NoResponse
    /\ \A j \in Jobs : job[j].pc \in { "done", "rejected" }
    /\ response' = UploadFilesResponse(results)
    /\ UNCHANGED << api_key, job, hist, store, results, status_queue, published,
                    hubVars, trVars >>

\* ------------------------------------------------ translate_text on its own
\* Texts around the chunk boundaries: all letters, letters then a blank,
\* a blank then letters.
TextLengths ==
    { 0, 1 } \cup { m * CHUNK_SIZE + d : m \in 1..MaxChunks, d \in { -1, 0, 1 } }

Texts ==
    { EmptyText, << Run(" ", 1) >> }
    \cup { << Run("x", n) >> : n \in TextLengths \ { 0 } }
    \cup { << Run("x", n - 1), Run(" ", 1) >> : n \in TextLengths \ { 0, 1 } }
    \cup { << Run(" ", 1), Run("x", n - 1) >> : n \in TextLengths \ { 0, 1 } }

\* translate_text(tr_text) is called and runs to its first POST.
TrCall ==
    /\ tr_call.status = "none"
    /\ tr_call' = TranslateStart(tr_text, api_key)
    /\ UNCHANGED << api_key, jobVars, status_queue, published, hubVars, tr_text >>

\* The service answers the awaited POST.
TrRespond ==
    /\ tr_call.status = "awaiting"
    /\ \E r \in Responses : tr_call' = TranslateStep(tr_call, r)
    /\ UNCHANGED << api_key, jobVars, status_queue, published, hubVars, tr_text >>

\* ---------------------------------------------- main.status_event_generator
\* What the jobs put on the queue, seen from the hub: some job calls
\* status_queue.put(message).
HubEvents ==
    { Event(FileName(j, << >>, ".txt"), ScanningStatus, NoDetail) : j \in Jobs }

Publish ==
    /\ Len(published) < MaxPublish
    /\ \E e \in HubEvents : Commit(Put(World, e))
    /\ UNCHANGED << api_key, job, hist, results, response, hubVars, trVars >>

\* GET /api/status: a generator is created for the connection.
Connect(s) ==
    /\ sub[s] = "off"
    /\ sub' = [sub EXCEPT ![s] = "check"]
    /\ client' = [client EXCEPT ![s] = TRUE]
    /\ joined' = [joined EXCEPT ![s] = Len(published)]
    /\ UNCHANGED << api_key, jobVars, status_queue, published, popped, received, pinged,
                    trVars >>

\* The observer goes away; the generator learns it at its next check.
Disconnect(s) ==
    /\ client[s]
    /\ client' = [client EXCEPT ![s] = FALSE]
    /\ UNCHANGED << api_key, jobVars, status_queue, published, popped, sub, joined,
                    received, pinged, trVars >>

CheckIgnoresDisconnect(connected) == "get"

\* Where the loop goes after `if await request.is_disconnected(): break`.
CheckResult(connected) == IF connected THEN "get" ELSE "closed"

\* Top of the loop: if await request.is_disconnected(): break
Check(s) ==
    /\ sub[s] = "check"
    /\ sub' = [sub EXCEPT ![s] = CheckResult(client[s])]
    /\ UNCHANGED << api_key, jobVars, status_queue, published, popped, client, joined,
                    received, pinged, trVars >>

\* status_queue.get() returns within the second: the message leaves the queue
\* and is yielded to this connection alone.
Receive(s) ==
    /\ sub[s] = "get"
    /\ status_queue # << >>
    /\ status_queue' = Tail(status_queue)
    /\ popped' = popped + 1
    /\ received' = [received EXCEPT ![s] = IF client[s] THEN Append(@, popped + 1) ELSE @]
    /\ sub' = [sub EXCEPT ![s] = "check"]
    /\ UNCHANGED << api_key, jobVars, published, client, joined, pinged, trVars >>

\* asyncio.TimeoutError: nothing arrived within the second, a keep-alive
\* comment is yielded.
KeepAlive(s) ==
    /\ sub[s] = "get"
    /\ status_queue = << >>
    /\ sub' = [sub EXCEPT ![s] = "check"]
    /\ pinged' = [pinged EXCEPT ![s] = @ \/ client[s]]
    /\ UNCHANGED << api_key, jobVars, status_queue, published, popped, client, joined,
                    received, trVars >>

\* ------------------------------------------------------------ specification
InitRest ==
    /\ api_key \in BOOLEAN
    /\ job = [j \in Jobs |-> NoJob]
    /\ hist = [j \in Jobs |-> NoHist]
    /\ store = [n \in Names |-> Absent]
    /\ results = [j \in Jobs |-> NoResult]
    /\ response = NoResponse
    /\ status_queue = << >>
    /\ published = << >>
    /\ popped = 0
    /\ sub = [s \in Subs |-> "off"]
    /\ client = [s \in Subs |-> FALSE]
    /\ joined = [s \in Subs |-> 0]
    /\ received = [s \in Subs |-> << >>]
    /\ pinged = [s \in Subs |-> FALSE]
    /\ tr_call = NoCall

Init == InitRest /\ tr_text = EmptyText

Next ==
    \/ \E j \in Jobs :
        \/ Upload(j)
        \/ ExtractDone(j)
        \/ TranslateDone(j)
        \/ MetadataDone(j)
    \/ UploadFilesReturn

\* The pipeline: uploads and their jobs, the queue filling with their events.
Spec == Init /\ [][Next]_vars

InitTranslate == InitRest /\ tr_text \in Texts

NextTranslate == TrCall \/ TrRespond

\* One call of translate_text against a scripted service.
SpecTranslate == InitTranslate /\ [][NextTranslate]_vars

InitHub == Init /\ api_key = TRUE

NextHub ==
    \/ Publish
    \/ \E s \in Subs :
        \/ Connect(s)
        \/ Disconnect(s)
        \/ Check(s)
        \/ Receive(s)
        \/ KeepAlive(s)

\* The status queue and its SSE connections, with the jobs as publishers.
SpecHub == InitHub /\ [][NextHub]_vars

\* request.is_disconnected() returns, and asyncio.wait_for returns within its
\* timeout, with a message or with asyncio.TimeoutError.
FairHub ==
    \A s \in Subs :
        /\ WF_vars(Check(s))
        /\ WF_vars(Receive(s) \/ KeepAlive(s))

\* The same, with every generator making progress.
SpecHubLive == InitHub /\ [][NextHub]_vars /\ FairHub

\* The uploads whose jobs run while observers come and go.
LiveJobs == 1..MaxLiveJobs

\* The SSE connections opened meanwhile.
LiveSubs == 1..MaxLiveSubs

NextLive ==
    \/ \E j \in LiveJobs :
        \/ Upload(j)
        \/ ExtractDone(j)
        \/ TranslateDone(j)
        \/ MetadataDone(j)
    \/ \E s \in LiveSubs :
        \/ Connect(s)
        \/ Disconnect(s)
        \/ Check(s)
        \/ Receive(s)
        \/ KeepAlive(s)

\* Every extractor thread, translate_text call and deriver call comes to an
\* end; nothing is assumed about the observers.
FairLive ==
    \A j \in LiveJobs :
        /\ WF_vars(ExtractDone(j))
        /\ WF_vars(TranslateDone(j))
        /\ WF_vars(MetadataDone(j))

\* The jobs of one upload request running while observers come and go.
SpecLive == Init /\ [][NextLive]_vars /\ FairLive

\* ------------------------------------------------------------------ claims
\* The events put on the queue for one file name, in publish order.
EventsOf(name) == SelectSeq(published, LAMBDA e : e.filename = name)

StatusesOf(name) == [i \in DOMAIN EventsOf(name) |-> EventsOf(name)[i].status]

IsTerminal(e) == e.status \in { CompleteStatus, ErrorStatus }

CountStatus(name, status) ==
    Cardinality({ i \in DOMAIN EventsOf(name) : EventsOf(name)[i].status = status })

Done(j) == job[j].pc = "done"

TranslationFailed(j) == Done(j) /\ "translate" \in hist[j].failed

\* C1: a job whose translation failed ends with an Error event carrying a
\* detail, and no Complete event is emitted for its file name.
C1_TranslationFailureEndsInError ==
    \A j \in Jobs :
        TranslationFailed(j) =>
            LET es == EventsOf(job[j].name) IN
            /\ es # << >>
            /\ es[Len(es)].status = ErrorStatus
            /\ es[Len(es)].detail # NoDetail
            /\ \A i \in DOMAIN es : es[i].status # CompleteStatus

\* Subscriber t has been connected since before message i was published.
ConnectedSince(t, i) == sub[t] \in { "check", "get" } /\ client[t] /\ joined[t] < i

\* C2: once the queue is drained, a message received by one subscriber has
\* been received by every subscriber that was connected when it was published.
C2_EverySubscriberReceivesEveryEvent ==
    status_queue = << >> =>
        \A s \in Subs, t \in Subs :
            \A k \in DOMAIN received[s] :
                ConnectedSince(t, received[s][k]) =>
                    \E m \in DOMAIN received[t] : received[t][m] = received[s][k]

\* C3: a subscriber never receives a message that was published before it
\* connected.
C3_NoReplayToLateSubscriber ==
    \A s \in Subs : \A k \in DOMAIN received[s] : received[s][k] > joined[s]

StageRank(status) ==
    CASE status = ScanningStatus -> 1
      [] status = ProcessingStatus -> 2
      [] status = TranslatingStatus -> 3
      [] status = MetadataStatus -> 4
      [] OTHER -> 5

\* A job with a clean scan, text to translate, a translation that returned and
\* a deriver that returned.
CleanRun(j) ==
    /\ Done(j)
    /\ hist[j].verdict = "clean"
    /\ hist[j].failed = {}
    /\ hist[j].derived_from # << >>

\* C4: the events of one file name are in stage order, and a clean run emits
\* exactly Scanning, Processing, Translating, Extracting Metadata, Complete.
C4_EventsInStageOrder ==
    \A j \in Jobs :
        LET st == StatusesOf(job[j].name) IN
        /\ \A i \in 1..(Len(st) - 1) : StageRank(st[i]) <= StageRank(st[i + 1])
        /\ CleanRun(j) =>
              st = << ScanningStatus, ProcessingStatus, TranslatingStatus,
                      MetadataStatus, CompleteStatus >>

\* Some clean run whose events have another file's event between them.
C4_Witness ==
    \E j \in Jobs :
        /\ CleanRun(j)
        /\ \E a, b, c \in DOMAIN published :
            /\ a < b /\ b < c
            /\ published[a].filename = job[j].name
            /\ published[c].filename = job[j].name
            /\ published[b].filename # job[j].name

\* The status that announces a stage of the state machine.
AnnouncedAs(stage) ==
    CASE stage = "Scanning" -> ScanningStatus
      [] stage = "Extracting" -> ProcessingStatus
      [] stage = "Translating" -> TranslatingStatus
      [] stage = "DerivingMetadata" -> MetadataStatus
      [] stage = "Persisting" -> "Persisting"
      [] stage = "Complete" -> CompleteStatus
      [] stage = "Error" -> ErrorStatus

\* C5: every stage a job entered was announced by exactly one event.
C5_OneEventPerStageEntered ==
    \A j \in Jobs :
        Done(j) =>
            \A stage \in hist[j].stages :
                CountStatus(job[j].name, AnnouncedAs(stage)) = 1

\* C6: a job emits at most one terminal event, nothing after it, and exactly
\* one once it is over.
C6_OneTerminalEventLast ==
    \A j \in Jobs :
        LET es == EventsOf(job[j].name)
            T == { i \in DOMAIN es : IsTerminal(es[i]) }
        IN
        /\ Cardinality(T) <= 1
        /\ \A i \in T : i = Len(es)
        /\ Done(j) => Cardinality(T) = 1

\* One job ended in Error and another in Complete.
C6_Witness ==
    \E j \in Jobs, k \in Jobs :
        /\ Done(j) /\ Done(k)
        /\ CountStatus(job[j].name, ErrorStatus) = 1
        /\ CountStatus(job[k].name, CompleteStatus) = 1
        /\ Len(EventsOf(job[k].name)) > 2

\* C7: an infected file is deleted and its job ends with an Error event whose
\* detail says that malware was detected.
C7_InfectedReportsMalware ==
    \A j \in Jobs :
        (Done(j) /\ hist[j].verdict = "infected") =>
            LET es == EventsOf(job[j].name) IN
            /\ ~Exists(store, job[j].name)
            /\ es[Len(es)].status = ErrorStatus
            /\ es[Len(es)].detail = MalwareDetail

\* C8: a job in which a stage failed has an Error event or an error entry in
\* the upload response.
C8_NoFailureSilentlyDropped ==
    \A j \in Jobs :
        (Done(j) /\ hist[j].failed # {}) =>
            \/ CountStatus(job[j].name, ErrorStatus) >= 1
            \/ results[j].status = "error"

\* C9: after a translation failure the job's original file is still stored.
C9_OriginalKeptOnTranslationFailure ==
    \A j \in Jobs :
        TranslationFailed(j) =>
            /\ Exists(store, job[j].name)
            /\ store[job[j].name].kind = "original"

\* A job whose translation failed after the service was asked.
C9_Witness ==
    \E j \in Jobs :
        /\ TranslationFailed(j)
        /\ CountStatus(job[j].name, TranslatingStatus) = 1
        /\ api_key

\* The part of the log that belongs to chunk k: from its first POST up to the
\* first POST of chunk k + 1.
FirstPost(log, k) ==
    IF \E i \in DOMAIN log : log[i] = PostOp(k)
    THEN CHOOSE i \in DOMAIN log : log[i] = PostOp(k) /\ \A m \in 1..(i - 1) : log[m] # PostOp(k)
    ELSE Len(log) + 1

ChunkOps(log, k) == SubSeq(log, FirstPost(log, k), FirstPost(log, k + 1) - 1)

Answers(ops) == SelectSeq(ops, LAMBDA o : o.op = "resp")

AlwaysRateLimited(ops) ==
    /\ Answers(ops) # << >>
    /\ \A i \in DOMAIN Answers(ops) : Answers(ops)[i].arg = 429

IsPrefix(a, b) == Len(a) <= Len(b) /\ a = SubSeq(b, 1, Len(a))

RateLimitedRun(k) ==
    << PostOp(k), RespOp(429), SleepOp(2), PostOp(k), RespOp(429), SleepOp(4),
       PostOp(k), RespOp(429) >>

\* C10: a chunk answered 429 every time gets exactly 3 POSTs, a wait of 2 s
\* after the first and 4 s after the second, and the third 429 raises with no
\* further wait or POST.
C10_ThreeAttemptsOnRateLimit ==
    \A k \in DOMAIN tr_call.chunks :
        LET ops == ChunkOps(tr_call.log, k) IN
        AlwaysRateLimited(ops) =>
            /\ IsPrefix(ops, RateLimitedRun(k))
            /\ (Len(Answers(ops)) = 3 =>
                  /\ tr_call.status = "raised"
                  /\ tr_call.err = "HTTPStatusError"
                  /\ tr_call.k = k
                  /\ ChunkOps(tr_call.log, k + 1) = << >>)

\* The second chunk was answered 429 three times.
C10_Witness ==
    /\ tr_call.status = "raised"
    /\ Len(tr_call.chunks) >= 2
    /\ ChunkOps(tr_call.log, 2) = RateLimitedRun(2)

\* C11: an answer to a chunk's request that is an error other than HTTP 429
\* (here HTTP 500, or a transport error) ends the call at once with a raise:
\* it is the last entry of the call's record, so no sleep and no request for
\* this chunk or a later one follows it.
C11_OtherErrorRaisesAtOnce ==
    \A i \in DOMAIN tr_call.log :
        (tr_call.log[i].op = "resp" /\ tr_call.log[i].arg \notin { 200, 429 })
            => /\ i = Len(tr_call.log)
               /\ tr_call.status = "raised"

\* A call raised on HTTP 500 while a later chunk was still to be sent.
C11_Witness ==
    /\ tr_call.status = "raised"
    /\ tr_call.log # << >>
    /\ tr_call.log[Len(tr_call.log)] = RespOp(500)
    /\ tr_call.k < Len(tr_call.chunks)

\* C12: the chunks of a text are each at most CHUNK_SIZE characters long and
\* joined in index order give the text back; a call that returns has one
\* translated piece per chunk, and when every piece equals its chunk (the
\* service is the identity) the call returns the text itself.
C12_ChunksRoundTrip ==
    LET chunks == Chunks(tr_text) IN
    /\ \A k \in DOMAIN chunks : TextLen(chunks[k]) \in 1..CHUNK_SIZE
    /\ Join(chunks) = tr_text
    /\ tr_call.status \in { "awaiting", "returned" } => tr_call.chunks = chunks
    /\ tr_call.status = "returned" =>
            /\ Len(tr_call.out) = Len(chunks)
            /\ tr_call.value = Join(tr_call.out)
            /\ (tr_call.out = chunks => tr_call.value = tr_text)

\* A text of several chunks, the last one shorter, came back unchanged.
C12_Witness ==
    /\ tr_call.status = "returned"
    /\ Len(tr_call.chunks) > 1
    /\ TextLen(tr_call.chunks[Len(tr_call.chunks)]) < CHUNK_SIZE
    /\ Len(tr_text) > 1
    /\ tr_call.out = tr_call.chunks
    /\ tr_call.value = tr_text

\* The extractor of job j returned a text without any non-blank character.
BlankExtract(j) ==
    /\ hist[j].extracted # << >>
    /\ \A i \in DOMAIN hist[j].extracted[1] : hist[j].extracted[1][i].c = " "

\* C13: a job whose extractor returned an empty or whitespace-only text is
\* over with a Complete event after Scanning and Processing and no Error event;
\* it entered neither translation nor metadata derivation, and it wrote no
\* artifact besides the uploaded file.
C13_BlankTextSkipsToComplete ==
    \A j \in Jobs :
        BlankExtract(j) =>
            /\ Done(j)
            /\ results[j].status = "success"
            /\ StatusesOf(job[j].name) = << ScanningStatus, ProcessingStatus, CompleteStatus >>
            /\ hist[j].stages = { "Scanning", "Extracting", "Complete" }
            /\ hist[j].derived_from = << >>
            /\ TranslatedName(job[j].name) \notin hist[j].wrote
            /\ MetadataName(job[j].name) \notin hist[j].wrote

\* A job whose extractor returned a single blank has finished.
C13_Witness ==
    \E j \in Jobs :
        /\ Done(j)
        /\ hist[j].extracted = << << Run(" ", 1) >> >>
        /\ CountStatus(job[j].name, CompleteStatus) = 1

\* The step in which the deriver of job j raises and the job finishes.
DeriverRaised(j) ==
    /\ job[j].pc = "metadata"
    /\ job'[j].pc = "done"
    /\ "metadata" \in hist'[j].failed

\* C14: when the deriver of a job raises, the job still ends with a Complete
\* event and a success result; the step leaves a metadata file with the base
\* filename as title, the authors ["No Authors"], the keywords ["general"] and
\* an error field, and the translated file with the translated text.
C14_DeriverFailureKeepsJob ==
    [][\A j \in Jobs :
        DeriverRaised(j) =>
            LET name == job[j].name
                record == store'[MetadataName(name)]
            IN
            /\ results'[j].status = "success"
            /\ published' = Append(published, published'[Len(published')])
            /\ published'[Len(published')].filename = name
            /\ published'[Len(published')].status = CompleteStatus
            /\ record.kind = "metadata"
            /\ record.title = << name.stem, name.sfx >>
            /\ record.authors = << "No Authors" >>
            /\ record.keywords = << "general" >>
            /\ record.error
            /\ store'[TranslatedName(name)] = TranslatedFile(job[j].text)
            /\ job[j].text # EmptyText
            /\ store'[name] = store[name]
      ]_vars

\* A job whose deriver raised is over and both derived files are there.
C14_Witness ==
    \E j \in Jobs :
        /\ Done(j)
        /\ "metadata" \in hist[j].failed
        /\ CountStatus(job[j].name, CompleteStatus) = 1
        /\ Exists(store, MetadataName(job[j].name))
        /\ store[MetadataName(job[j].name)].error
        /\ Exists(store, TranslatedName(job[j].name))

\* C15: when the clamscan executable is not found the job is not failed by the
\* scan: its uploaded file stays in the store as saved, no Error event exists
\* for it, and it has entered extraction with the Processing event right after
\* the Scanning event.
C15_MissingScannerPasses ==
    \A j \in Jobs :
        hist[j].verdict = "missing" =>
            LET name == job[j].name IN
            /\ "scan" \notin hist[j].failed
            /\ "Extracting" \in hist[j].stages
            /\ store[name] = Original(hist[j].size)
            /\ CountStatus(name, ErrorStatus) = 0
            /\ Len(StatusesOf(name)) >= 2
            /\ SubSeq(StatusesOf(name), 1, 2) = << ScanningStatus, ProcessingStatus >>

\* A job scanned without clamscan went through translation and finished.
C15_Witness ==
    \E j \in Jobs :
        /\ hist[j].verdict = "missing"
        /\ Done(j)
        /\ "DerivingMetadata" \in hist[j].stages
        /\ Exists(store, job[j].name)

\* C16: when the scanner fails internally (a return code other than 0 and 1,
\* or an unexpected exception) the job is over at once: the uploaded file is
\* gone, the job's events are Scanning then Error, its result is an error, and
\* it entered no later stage and wrote no other file.
C16_ScannerFailureEndsJob ==
    \A j \in Jobs :
        hist[j].verdict \in { "failed", "crashed" } =>
            LET name == job[j].name IN
            /\ Done(j)
            /\ ~Exists(store, name)
            /\ StatusesOf(name) = << ScanningStatus, ErrorStatus >>
            /\ results[j].status = "error"
            /\ hist[j].stages = { "Scanning", "Error" }
            /\ hist[j].extracted = << >>
            /\ hist[j].derived_from = << >>
            /\ hist[j].wrote = { name }
            /\ hist[j].removed = { name }

\* One job ended on a scanner return code, another on a scanner exception.
C16_Witness ==
    \E j, k \in Jobs :
        /\ hist[j].verdict = "failed"
        /\ hist[k].verdict = "crashed"
        /\ Done(j)
        /\ Done(k)

\* The uploaded extensions that are on the allow-list when case is ignored.
AllowListed == { ".pdf", ".docx", ".txt", ".tex", ".html", ".xml", ".PDF" }

\* The errors with which process_single_file rejects an upload.
RejectionErrors == { "File type not allowed", "File size exceeds limit" }

\* C17: an upload whose extension is on the allow-list (in any case) and whose
\* size is at most MAX_FILE_SIZE is not rejected: its job has started with the
\* Scanning event. An upload whose extension is not on the list is rejected
\* for its type, has written no file and has started no job.
C17_AllowListDecidesIngestion ==
    \A j \in Jobs :
        job[j].pc # "absent" =>
            LET name == job[j].name IN
            /\ (name.ext \in AllowListed /\ hist[j].size <= MAX_FILE_SIZE) =>
                    /\ job[j].pc # "rejected"
                    /\ results[j].error \notin RejectionErrors
                    /\ "Scanning" \in hist[j].stages
                    /\ CountStatus(name, ScanningStatus) = 1
            /\ name.ext \notin AllowListed =>
                    /\ job[j].pc = "rejected"
                    /\ results[j] = [status |-> "error", error |-> "File type not allowed"]
                    /\ hist[j].wrote = {}
                    /\ hist[j].stages = {}
                    /\ EventsOf(name) = << >>

\* An upper-case .PDF of the largest size was taken in and an .exe was rejected.
C17_Witness ==
    \E j, k \in Jobs :
        /\ job[j].name.ext = ".PDF"
        /\ hist[j].size = MAX_FILE_SIZE
        /\ "Extracting" \in hist[j].stages
        /\ job[k].name.ext = ".exe"
        /\ job[k].pc = "rejected"

\* C18: an allowed upload whose saved size is above MAX_FILE_SIZE is rejected
\* with the size error: the saved file is removed again, no event is put and no
\* stage is entered; an allowed upload of exactly MAX_FILE_SIZE is not rejected.
C18_SizeLimit ==
    \A j \in Jobs :
        (job[j].pc # "absent" /\ job[j].name.ext \in AllowListed) =>
            LET name == job[j].name IN
            /\ hist[j].size > MAX_FILE_SIZE =>
                    /\ job[j].pc = "rejected"
                    /\ results[j] = [status |-> "error", error |-> "File size exceeds limit"]
                    /\ ~Exists(store, name)
                    /\ hist[j].wrote = { name }
                    /\ hist[j].removed = { name }
                    /\ hist[j].stages = {}
                    /\ EventsOf(name) = << >>
            /\ hist[j].size = MAX_FILE_SIZE =>
                    /\ job[j].pc # "rejected"
                    /\ results[j].error # "File size exceeds limit"
                    /\ "Scanning" \in hist[j].stages

\* One upload was a byte too large and rejected, one of exactly the limit ran
\* to its Complete event.
C18_Witness ==
    \E j, k \in Jobs :
        /\ hist[j].size = MAX_FILE_SIZE + 1
        /\ job[j].pc = "rejected"
        /\ results[j].error = "File size exceeds limit"
        /\ hist[k].size = MAX_FILE_SIZE
        /\ Done(k)
        /\ results[k].status = "success"

\* The last event of job j is its Complete event.
EndedInComplete(j) ==
    /\ EventsOf(job[j].name) # << >>
    /\ EventsOf(job[j].name)[Len(EventsOf(job[j].name))].status = CompleteStatus

\* C19: the response of a batch upload has one outcome per uploaded file, in
\* the order of the files; its successful and failed counts add up to the
\* number of files; a file is counted successful exactly when its own job
\* ended in Complete, and its outcome is an error exactly when the file itself
\* was rejected or failed its own scan, whatever happened to the other files.
C19_BatchOutcomes ==
    response # NoResponse =>
        /\ Len(response.details) = Cardinality(Jobs)
        /\ response.successful + response.failed = Cardinality(Jobs)
        /\ response.successful = Cardinality({ j \in Jobs : EndedInComplete(j) })
        /\ \A j \in Jobs :
            /\ response.details[j] = results[j]
            /\ results[j].status \in { "success", "error" }
            /\ results[j].status = "success" <=> EndedInComplete(j)
            /\ results[j].status = "error" <=>
                    (job[j].pc = "rejected" \/ "scan" \in hist[j].failed)

\* A batch in which one file failed its scan and another one completed.
C19_Witness ==
    /\ response # NoResponse
    /\ response.successful >= 1
    /\ response.failed >= 1
    /\ \E j, k \in Jobs :
        /\ hist[j].verdict = "infected"
        /\ "DerivingMetadata" \in hist[k].stages
        /\ EndedInComplete(k)

\* The files upload j wrote or removed.
Touched(j) == hist[j].wrote \cup hist[j].removed

\* C20: two uploads with different filenames never write or delete the same
\* file of the store, so the uploaded file and the derived files of one job are
\* never overwritten or removed by the job of another filename.
C20_StorePartitionedByFilename ==
    \A j, k \in Jobs :
        (j # k /\ job[j].pc # "absent" /\ job[k].pc # "absent"
               /\ job[j].name # job[k].name)
            => Touched(j) \cap Touched(k) = {}

\* Job j is started and not over.
Started(j) == job[j].pc \in { "extracting", "translating", "metadata" }

\* C21: every started job comes to its Complete or Error event whatever the
\* observers do (no fairness is assumed for them, so events may stay on the
\* queue unconsumed), and a step of an observer changes no job, no file and
\* nothing that was published.
C21_StartedJobsFinish ==
    /\ \A j \in LiveJobs :
            Started(j) ~>
                (/\ Done(j)
                 /\ EventsOf(job[j].name) # << >>
                 /\ IsTerminal(EventsOf(job[j].name)[Len(EventsOf(job[j].name))]))
    /\ [][(sub' # sub \/ client' # client) =>
                (job' = job /\ store' = store /\ published' = published)]_vars

\* A job went through every stage while its observer received an event and
\* went away, leaving events unconsumed on the queue.
C21_Witness ==
    \E j \in LiveJobs, s \in LiveSubs :
        /\ Done(j)
        /\ "DerivingMetadata" \in hist[j].stages
        /\ sub[s] = "closed"
        /\ received[s] # << >>
        /\ status_queue # << >>

\* The texts made of one translated piece per chunk of text, in chunk order.
WholeTranslations(text) ==
    LET chunks == Chunks(text) IN
    { Join([k \in DOMAIN chunks |-> Body(chunks[k], [code |-> 200, tr |-> f[k]])]) :
        f \in [DOMAIN chunks -> { "identity", "upper" }] }

\* C22: when the deriver of a job has been called, translate_text had returned
\* for the whole extracted text (no translation failure, the value has a
\* translated piece for every chunk) and the deriver was given the returned text.
C22_DeriverGetsTranslatedText ==
    \A j \in Jobs :
        hist[j].derived_from # << >> =>
            /\ "translate" \notin hist[j].failed
            /\ hist[j].extracted # << >>
            /\ hist[j].translated # << >>
            /\ hist[j].translated[1] \in WholeTranslations(hist[j].extracted[1])
            /\ hist[j].derived_from = hist[j].translated

\* A deriver was called with a translation of two chunks that differs from the
\* extracted text.
C22_Witness ==
    \E j \in Jobs :
        /\ hist[j].derived_from # << >>
        /\ hist[j].derived_from # hist[j].extracted
        /\ TextLen(hist[j].extracted[1]) > CHUNK_SIZE
        /\ hist[j].derived_from[1] = Upper(hist[j].extracted[1])

\* C23: an upload rejected by validation has no event on the queue and no
\* stage behind it (no scan, no extraction, no translation, no derivation);
\* its result is an error that names the reason, the type for an extension off
\* the allow-list and otherwise the size, and the upload response carries that
\* result as the entry of the file.
C23_RejectedBeforeAnyJob ==
    \A j \in Jobs :
        job[j].pc = "rejected" =>
            LET name == job[j].name IN
            /\ EventsOf(name) = << >>
            /\ hist[j].stages = {}
            /\ hist[j].verdict = "none"
            /\ hist[j].failed = {}
            /\ hist[j].extracted = << >>
            /\ hist[j].translated = << >>
            /\ hist[j].derived_from = << >>
            /\ results[j].status = "error"
            /\ results[j].error = IF name.ext \notin AllowListed
                                  THEN "File type not allowed"
                                  ELSE "File size exceeds limit"
            /\ name.ext \in AllowListed => hist[j].size > MAX_FILE_SIZE
            /\ response # NoResponse => response.details[j] = results[j]

\* The response of a batch with one file rejected for its type and one for
\* its size.
C23_Witness ==
    /\ response # NoResponse
    /\ \E j, k \in Jobs :
        /\ job[j].pc = "rejected"
        /\ job[k].pc = "rejected"
        /\ response.details[j].error = "File type not allowed"
        /\ response.details[k].error = "File size exceeds limit"

\* C24: a generator whose wait for a message ends with the queue empty takes
\* nothing and yields a keep-alive; once its observer is gone the generator
\* ends at its next disconnect check (after at most the wait it is in), and a
\* generator that has ended yields nothing more and takes no message: only a
\* generator still in its wait takes messages from the queue.
C24_KeepAliveAndTermination ==
    /\ \A s \in Subs :
            (sub[s] \in { "check", "get" } /\ ~client[s]) ~> (sub[s] = "closed")
    /\ [][\A s \in Subs :
            /\ (sub[s] = "get" /\ sub'[s] # "get" /\ status_queue = << >>) =>
                    /\ sub'[s] = "check"
                    /\ status_queue' = << >>
                    /\ popped' = popped
                    /\ client[s] => pinged'[s]
            /\ (sub[s] = "check" /\ sub'[s] # "check") =>
                    sub'[s] = (IF client[s] THEN "get" ELSE "closed")
            /\ sub[s] = "closed" =>
                    /\ sub'[s] = "closed"
                    /\ received'[s] = received[s]
                    /\ pinged'[s] = pinged[s]
            /\ popped' # popped =>
                    \E t \in Subs : sub[t] = "get" /\ sub'[t] = "check"
          ]_vars

\* A connection got a keep-alive and a message, its observer left, and its
\* generator ended while a message was still on the queue.
C24_Witness ==
    \E s \in Subs :
        /\ sub[s] = "closed"
        /\ pinged[s]
        /\ received[s] # << >>
        /\ status_queue # << >>

\* How many requests the call has made for chunk k.
Requests(k) == Len(SelectSeq(tr_call.log, LAMBDA o : o = PostOp(k)))

\* C25: the requests of a call go through the chunks in index order. The first
\* request of chunk k + 1 comes right after a 200 answer to chunk k and the
\* pacing sleep; a repeated request of a chunk comes right after a 429 answer
\* and its backoff sleep; no chunk gets more than MAX_RETRIES requests, and a
\* call gives up on 429 only at the chunk's own MAX_RETRIES-th request; there is
\* one translated piece per 200 answer, so per finished chunk, and a returned
\* call has one piece per chunk, each the translation of its chunk.
C25_SequentialChunks ==
    LET log == tr_call.log IN
    /\ log # << >> => log[1] = PostOp(1)
    /\ \A i \in DOMAIN log :
        (log[i].op = "post" /\ i > 1) =>
            /\ i > 3
            /\ log[i - 3].op = "post"
            /\ \/ /\ log[i].arg = log[i - 3].arg + 1
                  /\ log[i - 2] = RespOp(200)
                  /\ log[i - 1] = SleepOp(PACING_DELAY)
               \/ /\ log[i].arg = log[i - 3].arg
                  /\ log[i - 2] = RespOp(429)
                  /\ log[i - 1].op = "sleep"
    /\ \A k \in DOMAIN tr_call.chunks : Requests(k) <= MAX_RETRIES
    /\ (tr_call.status = "raised" /\ log # << >> /\ log[Len(log)] = RespOp(429))
            => Requests(tr_call.k) = MAX_RETRIES
    /\ Len(tr_call.out) = Len(SelectSeq(log, LAMBDA o : o = RespOp(200)))
    /\ tr_call.status = "awaiting" => Len(tr_call.out) = tr_call.k - 1
    /\ tr_call.status = "returned" =>
            /\ Len(tr_call.out) = Len(tr_call.chunks)
            /\ \A k \in DOMAIN tr_call.chunks :
                    tr_call.out[k] \in { tr_call.chunks[k], Upper(tr_call.chunks[k]) }

\* Both chunks of a text needed all their requests and the call returned.
C25_Witness ==
    /\ tr_call.status = "returned"
    /\ Len(tr_call.chunks) > 1
    /\ Requests(1) = MAX_RETRIES
    /\ Requests(2) = MAX_RETRIES
    /\ Len(tr_call.out) = Len(tr_call.chunks)

\* C26: the step that rejects an upload changes no file of the store except
\* that an upload rejected for its size has its own saved file removed again;
\* an upload rejected for its extension leaves the file of its name, if one
\* existed, as it was.
C26_RejectionLeavesStore ==
    [][\A j \in Jobs :
        (job[j].pc = "absent" /\ job'[j].pc = "rejected") =>
            LET name == job'[j].name IN
            /\ \A n \in Names \ { name } : store'[n] = store[n]
            /\ name.ext \notin AllowListed => store'[name] = store[name]
            /\ name.ext \in AllowListed => store'[name] = Absent
      ]_vars

\* The step in which job j writes its translated file.
WritesTranslation(j) ==
    /\ job[j].pc = "metadata"
    /\ TranslatedName(job[j].name) \in hist'[j].wrote

\* C27: a job whose translation failed, on whatever chunk, got no text from
\* translate_text and has written neither its translated file nor its metadata
\* file; and the text a job writes to its translated file has a translated
\* piece for every chunk of the extracted text, in chunk order.
C27_NoPartialTranslation ==
    /\ [](\A j \in Jobs :
            "translate" \in hist[j].failed =>
                /\ hist[j].translated = << >>
                /\ hist[j].derived_from = << >>
                /\ TranslatedName(job[j].name) \notin hist[j].wrote
                /\ MetadataName(job[j].name) \notin hist[j].wrote)
    /\ [][\A j \in Jobs :
            WritesTranslation(j) =>
                /\ store'[TranslatedName(job[j].name)].kind = "translated"
                /\ store'[TranslatedName(job[j].name)].text
                        \in WholeTranslations(hist[j].extracted[1])
          ]_vars

\* One job's translation failed after its first chunk was translated, and
\* another job wrote the translation of a text of several chunks.
C27_Witness ==
    \E j, k \in Jobs :
        /\ "translate" \in hist[j].failed
        /\ hist[j].partial >= 1
        /\ Done(j)
        /\ TranslatedName(job[k].name) \in hist[k].wrote
        /\ TextLen(hist[k].extracted[1]) > CHUNK_SIZE
====
